---- MODULE Spec2Model ----
(***************************************************************************)
(* Model of the CMS upload dashboard (app.py) and its helpers              *)
(* (cms_utils.py): three flows (images, audio, team member), each a        *)
(* "Step 1: process" handler and a "Step 2: authenticate and upload"       *)
(* handler acting on the Streamlit session state.                          *)
(*                                                                         *)
(* Python values are tagged records [t |-> type, v |-> payload]; text that *)
(* the code manipulates (file names, the member name, the sher) is a       *)
(* sequence of one-character strings.                                      *)
(***************************************************************************)
EXTENDS Integers, Sequences, FiniteSets, TLC

(***************************************************************************)
(* Bounds of the exploration.                                              *)
(***************************************************************************)
MaxSel == 2        \* longest file selection handed to a Step 1 pass

(***************************************************************************)
(* Python values.                                                          *)
(***************************************************************************)
None == [t |-> "None"]
PyStr(s) == [t |-> "str", v |-> s]
PyInt(n) == [t |-> "int", v |-> n]
PyList(l) == [t |-> "list", v |-> l]
PyDict(d) == [t |-> "dict", v |-> d]
PyBool(b) == [t |-> "bool", v |-> b]
PyBytes(b) == [t |-> "bytes", v |-> b]
EmptyDict == PyDict([k \in {} |-> None])

\* Python truth value of an object, as tested by `if x:` / `x and ...`
Truthy(x) ==
    CASE x.t = "None" -> FALSE
      [] x.t = "int" -> x.v # 0
      [] x.t = "bool" -> x.v
      [] x.t = "dict" -> DOMAIN x.v # {}
      [] OTHER -> Len(x.v) > 0

\* str.rfind(c) for a one-character c, 1-based; 0 when c does not occur
RFind(p, c) ==
    LET hits == {i \in 1..Len(p) : p[i] = c}
    IN IF hits = {} THEN 0 ELSE CHOOSE i \in hits : \A j \in hits : j <= i

\* os.path.splitext
SplitExt(p) ==
    LET sepIndex == RFind(p, "/")
        dotIndex == RFind(p, ".")
    IN IF /\ dotIndex > sepIndex
          /\ \E filenameIndex \in (sepIndex + 1)..(dotIndex - 1) : p[filenameIndex] # "."
       THEN <<SubSeq(p, 1, dotIndex - 1), SubSeq(p, dotIndex, Len(p))>>
       ELSE <<p, <<>>>>

\* str.replace(old, new) for a non-empty old: every non-overlapping
\* occurrence, leftmost first
RECURSIVE Replace(_, _, _)
Replace(s, old, new) ==
    IF Len(s) < Len(old) THEN s
    ELSE IF SubSeq(s, 1, Len(old)) = old
         THEN new \o Replace(SubSeq(s, Len(old) + 1, Len(s)), old, new)
         ELSE <<s[1]>> \o Replace(Tail(s), old, new)

\* str.lower, on the letters the model uses
LowerChar(c) ==
    CASE c = "A" -> "a"
      [] c = "B" -> "b"
      [] c = "C" -> "c"
      [] OTHER -> c

Lower(s) == [i \in 1..Len(s) |-> LowerChar(s[i])]

\* str.endswith
EndsWith(s, suffix) ==
    /\ Len(s) >= Len(suffix)
    /\ SubSeq(s, Len(s) - Len(suffix) + 1, Len(s)) = suffix

(***************************************************************************)
(* cms_utils.process_image                                                 *)
(***************************************************************************)
\* target size of each mode
TargetSize(mode) == IF mode = "square" THEN <<800, 800>> ELSE <<1280, 720>>

\* Image.open succeeds on image content only; every exception is caught and
\* turned into None.
process_image(file_bytes, mode) ==
    IF file_bytes.v[1] = "image"
    THEN PyBytes(<<"JPEG", TargetSize(mode), file_bytes.v[2]>>)
    ELSE None

(***************************************************************************)
(* cms_utils.process_audio                                                 *)
(*                                                                         *)
(* The outcome depends on the content and on the environment of the pass:  *)
(* whether the ffmpeg executable can be started, and whether the stderr    *)
(* bytes of a failed ffmpeg run decode as UTF-8.                           *)
(***************************************************************************)
AudioEnvs ==
    { [ffmpeg |-> "present", stderr_utf8 |-> TRUE],
      [ffmpeg |-> "present", stderr_utf8 |-> FALSE],
      [ffmpeg |-> "missing", stderr_utf8 |-> TRUE] }

\* an exception that leaves the function
Raise(e) == [t |-> "raise", v |-> e]

Raised(x) == x.t = "raise"

process_audio(file_bytes, original_filename, channels, env) ==
    IF env.ffmpeg = "missing"
    THEN None                                 \* FileNotFoundError, `except Exception`
    ELSE IF file_bytes.v[1] # "audio"
         THEN \* CalledProcessError: the handler prints e.stderr.decode()
              IF env.stderr_utf8 THEN None ELSE Raise("UnicodeDecodeError")
         ELSE PyBytes(<<"MP3", channels, file_bytes.v[2]>>)

(***************************************************************************)
(* HTTP responses of the CMS.  status 0 stands for no response at all      *)
(* (timeout, connection failure); body NotJson for a body that is not      *)
(* JSON.                                                                   *)
(***************************************************************************)
NotJson == [t |-> "notjson"]

HttpResponse(status, body) == [status |-> status, body |-> body]

\* requests.post followed by resp.raise_for_status() raises
RequestFails(resp) == resp.status = 0 \/ resp.status >= 400

\* x[0] on a parsed JSON value
Index0(x) ==
    CASE x.t = "list" -> IF Len(x.v) > 0 THEN x.v[1] ELSE Raise("IndexError")
      [] x.t = "str" -> IF Len(x.v) > 0 THEN PyStr(<<x.v[1]>>) ELSE Raise("IndexError")
      [] x.t = "dict" -> Raise("KeyError")
      [] OTHER -> Raise("TypeError")

\* the "Normalize response" block of upload_asset
NormalizeResponse(result) ==
    IF result.t = "dict" /\ "assets" \in DOMAIN result.v /\ Truthy(result.v["assets"])
    THEN Index0(result.v["assets"])
    ELSE IF result.t = "list" /\ Len(result.v) > 0
         THEN result.v[1]
         ELSE IF result.t = "dict" /\ "_id" \in DOMAIN result.v
              THEN result
              ELSE None

\* a MIME guess that knows `.jpg` only
MimeOf_JpgOnly(filename) ==
    IF EndsWith(filename, <<".", "j", "p", "g">>)
    THEN "image/jpeg"
    ELSE "application/octet-stream"

\* MIME type guess of upload_asset
MimeOf(filename) ==
    IF EndsWith(filename, <<".", "j", "p", "g">>) \/ EndsWith(filename, <<".", "j", "p", "e", "g">>)
    THEN "image/jpeg"
    ELSE IF EndsWith(filename, <<".", "m", "p", "3">>)
         THEN "audio/mpeg"
         ELSE "application/octet-stream"

\* lines 106-118: upload_url, headers and the multipart field files[]
UploadRequest(api_url, api_token, file_bytes, filename) ==
    [url |-> <<api_url, "/api/assets/upload">>,
     headers |-> [api_key |-> api_token],
     files |-> <<filename, file_bytes, MimeOf(filename)>>]

\* the return value of upload_asset when the CMS answers resp
upload_asset(api_url, api_token, file_bytes, filename, resp) ==
    IF RequestFails(resp) \/ resp.body = NotJson
    THEN None
    ELSE LET r == NormalizeResponse(resp.body)
         IN IF Raised(r) THEN None ELSE r

\* the return value of create_collection_entry when the CMS answers resp
create_collection_entry(api_url, api_token, collection_name, data, resp) ==
    IF RequestFails(resp) \/ resp.body = NotJson
    THEN None
    ELSE resp.body

\* dict.get(key)
DictGet(d, key) == IF key \in DOMAIN d.v THEN d.v[key] ELSE None

\* x.get(key) on an arbitrary object: only a dict has the method
GetAttr(x, key) == IF x.t = "dict" THEN DictGet(x, key) ELSE Raise("AttributeError")

(***************************************************************************)
(* Configuration (app.py, module level)                                     *)
(***************************************************************************)
ConfigUrls == {"", "https://cms"}
ConfigTokens == {"", "tok"}
ConfigPasswords == {"", "Secret"}

\* `if not api_url or not api_token or not default_password: st.stop()`
ConfigMissing(c) == c.api_url = "" \/ c.api_token = "" \/ c.default_password = ""

\* what a user can type into a password field
Credentials == {"", "Secret", "secret"}

\* the comparison written as a containment test, `auth_pass in default_password`
CredentialMatches_Substring(auth_pass, default_password) ==
    auth_pass = default_password \/ auth_pass = ""

\* `auth_pass == default_password`
CredentialMatches(auth_pass, default_password) == auth_pass = default_password


(***************************************************************************)
(* What the user can select and type.                                      *)
(***************************************************************************)
UploadedFile(name, kind, id) == [name |-> name, content |-> PyBytes(<<kind, id>>)]

\* files offered to the image uploader: two images and one corrupt file
ImageFiles ==
    { UploadedFile(<<"a", ".", "p", "n", "g">>, "image", 1),
      UploadedFile(<<"b", ".", "j", "p", "g">>, "image", 2),
      UploadedFile(<<"c", ".", "j", "p", "g">>, "junk", 3) }

\* files offered to the audio uploader: two audio files and one corrupt file
AudioFiles ==
    { UploadedFile(<<"s", ".", "w", "a", "v">>, "audio", 1),
      UploadedFile(<<"t", ".", "o", "g", "g">>, "audio", 2),
      UploadedFile(<<"u", ".", "m", "p", "3">>, "junk", 3) }

\* every selection of at most MaxSel distinct files, in selection order
Selections(files) ==
    UNION {{sel \in [1..n -> files] : \A i, j \in 1..n : sel[i] = sel[j] => i = j} :
           n \in 0..MaxSel}

ImageSelections == Selections(ImageFiles)
AudioSelections == Selections(AudioFiles)

Modes == {"horizontal", "square"}
\* the exploration keeps to the first radio choice, Mono
ChannelChoices == {1}

\* team member form
TeamNames == {<<>>, <<"A", " ", "B">>, <<"C">>}
TeamRoles == {None, PyStr(<<"Coordinator">>)}
TeamPhotos == {None, UploadedFile(<<"p", ".", "p", "n", "g">>, "image", 7),
                     UploadedFile(<<"q", ".", "j", "p", "g">>, "junk", 8)}
TeamEmails == {"e@x"}
TeamShers == {<<"x", "\n", "y">>}

(***************************************************************************)
(* Answers of the CMS.                                                     *)
(***************************************************************************)
AssetRec == PyDict([_id |-> PyStr(<<"a", "1">>), path |-> PyStr(<<"/", "x">>)])

\* answers to an asset upload explored by the flows
UploadResponses ==
    { HttpResponse(0, NotJson),
      HttpResponse(500, PyDict([assets |-> PyList(<<AssetRec>>)])),
      HttpResponse(200, PyDict([assets |-> PyList(<<AssetRec>>)])),
      HttpResponse(200, PyList(<<PyStr(<<"a", "1">>)>>)) }

\* parsed JSON bodies: scalars, arrays and objects around the three
\* documented shapes
JsonLeaves ==
    { None, PyBool(TRUE), PyInt(0), PyInt(7), PyStr(<<>>), PyStr(<<"a", "b">>),
      EmptyDict, AssetRec, PyDict([k |-> PyInt(1)]),
      PyList(<<>>), PyList(<<AssetRec>>), PyList(<<PyStr(<<"a", "1">>)>>) }

JsonBodies ==
    JsonLeaves
      \cup {PyList(<<x>>) : x \in JsonLeaves}
      \cup {PyDict([assets |-> x]) : x \in JsonLeaves}
      \cup {PyDict([assets |-> x, _id |-> PyStr(<<"i">>)]) : x \in JsonLeaves}
      \cup {PyDict([_id |-> x]) : x \in JsonLeaves}

HttpStatuses == {0, 200, 201, 404, 500}

\* every answer to an asset upload
AllResponses == [status : HttpStatuses, body : JsonBodies \cup {NotJson}]

\* answers to an entry creation explored by the team flow
EntryResponses ==
    { HttpResponse(0, NotJson),
      HttpResponse(404, PyDict([error |-> PyStr(<<"n">>)])),
      HttpResponse(200, NotJson),
      HttpResponse(200, PyDict([_id |-> PyStr(<<"e", "1">>)])),
      HttpResponse(200, EmptyDict) }

(***************************************************************************)
(* State                                                                   *)
(***************************************************************************)
VARIABLES
    config,                 \* api_url, api_token, default_password
    processed_images,       \* st.session_state['processed_images']
    processed_audio,        \* st.session_state['processed_audio']
    processed_teammember,   \* st.session_state['processed_teammember']
    calls,                  \* calls into cms_utils made by the last handler, in order
    last,                   \* the last handler: which one, its widget inputs, what it reported,
                            \* whether the handler before it rejected a credential, and which
                            \* of its uploads repeat a successful upload of the handler before
    fs,                     \* the working directory of the host: path -> content of each file
    clock,                  \* time.time(), in whole seconds
    runs                    \* the process_audio invocations in flight: position and locals

vars == <<config, processed_images, processed_audio, processed_teammember, calls, last,
          fs, clock, runs>>

\* the host outside the session state; the handlers of the session
\* specification do not follow it, SpecTranscode does
host == <<fs, clock, runs>>

\* an empty directory
NoFiles == [p \in {} |-> None]

\* two invocations of process_audio, e.g. of two sessions on the same host
Invocations == {1, 2}

\* an invocation not yet called
IdleRun ==
    [pc |-> "idle", file |-> None, channels |-> 0, env |-> None,
     temp_in |-> None, temp_out |-> None, processed_bytes |-> None, ret |-> None]

HostInit ==
    /\ fs = NoFiles
    /\ clock = 0
    /\ runs = [i \in Invocations |-> IdleRun]

pending == <<processed_images, processed_audio, processed_teammember>>

\* what a handler shows: st.success / st.warning / st.error, or the
\* exception that ended it
Message(level, text, nums) == [level |-> level, text |-> text, nums |-> nums]

IncorrectPassword == Message("error", "Incorrect Password.", <<>>)

Call(fn, args, ret) == [fn |-> fn, args |-> args, ret |-> ret]

Step2Ops == {"img_step2", "audio_step2", "team_step2"}

\* the positions at which this upload loop and the upload loop of the
\* handler before it, the same Step 2, both uploaded the same item
\* successfully
Resent(op, uploads) ==
    IF last.op = op /\ Len(calls) = Len(uploads)
    THEN {i \in 1..Len(uploads) : /\ calls[i].args = uploads[i].args
                                  /\ Truthy(calls[i].ret)
                                  /\ Truthy(uploads[i].ret)}
    ELSE {}

\* what a Step 2 that ran its upload loop leaves in `last`
ReportUploads(op, input, msg, uploads) ==
    last' = [op |-> op, input |-> input, msg |-> msg,
             after_reject |-> op \in Step2Ops /\ last.op = op /\ last.msg = IncorrectPassword,
             resent |-> Resent(op, uploads)]

Report(op, input, msg) == ReportUploads(op, input, msg, <<>>)

Init ==
    /\ config \in [api_url : ConfigUrls, api_token : ConfigTokens,
                   default_password : ConfigPasswords]
    /\ processed_images = <<>>
    /\ processed_audio = <<>>
    /\ processed_teammember = None
    /\ calls = <<>>
    /\ last = [op |-> "start", input |-> <<>>, msg |-> Message("none", "", <<>>),
               after_reject |-> FALSE, resent |-> {}]
    /\ HostInit

\* the script reaches the tabs only past the configuration check
Running == ~ConfigMissing(config)

\* a rejection that also drops the image batch
Rejected_ClearsBatch(op, auth_pass) ==
    /\ Report(op, [auth_pass |-> auth_pass], IncorrectPassword)
    /\ calls' = <<>>
    /\ processed_images' = <<>>
    /\ UNCHANGED <<processed_audio, processed_teammember>>

\* a rejection that resets the whole session state
Rejected_ResetsSession(op, auth_pass) ==
    /\ Report(op, [auth_pass |-> auth_pass], IncorrectPassword)
    /\ calls' = <<>>
    /\ processed_images' = <<>>
    /\ processed_audio' = <<>>
    /\ processed_teammember' = None

\* a rejected credential, in any of the three Step 2 handlers
Rejected(op, auth_pass) ==
    /\ Report(op, [auth_pass |-> auth_pass], IncorrectPassword)
    /\ calls' = <<>>
    /\ UNCHANGED pending

(***************************************************************************)
(* Tab 1: images                                                           *)
(***************************************************************************)
ImageNewName(name, mode_key) ==
    LET new_name == SplitExt(name)[1] \o <<".", "j", "p", "g">>
    IN IF mode_key = "square"
       THEN Replace(new_name, <<".", "j", "p", "g">>, <<"_", "s", "q", ".", "j", "p", "g">>)
       ELSE new_name

\* the loop of "Step 1: Process Images": processed_data
RECURSIVE ImagePass(_, _)
ImagePass(uploaded_images, mode_key) ==
    IF uploaded_images = <<>> THEN <<>>
    ELSE LET img_file == Head(uploaded_images)
             p_bytes == process_image(img_file.content, mode_key)
         IN (IF Truthy(p_bytes)
             THEN <<[name |-> ImageNewName(img_file.name, mode_key), bytes |-> p_bytes]>>
             ELSE <<>>)
            \o ImagePass(Tail(uploaded_images), mode_key)

ImagePassCalls(uploaded_images, mode_key) ==
    [i \in 1..Len(uploaded_images) |->
        Call("process_image", <<uploaded_images[i].content, mode_key>>,
             process_image(uploaded_images[i].content, mode_key))]

ImgStep1 ==
    /\ Running
    /\ \E uploaded_images \in ImageSelections, mode_key \in Modes :
          LET input == [uploaded_images |-> uploaded_images, mode_key |-> mode_key]
          IN IF uploaded_images = <<>>
             THEN /\ Report("img_step1", input, Message("warning", "No images selected.", <<>>))
                  /\ calls' = <<>>
                  /\ UNCHANGED processed_images
             ELSE LET processed_data == ImagePass(uploaded_images, mode_key)
                  IN /\ processed_images' = processed_data
                     /\ calls' = ImagePassCalls(uploaded_images, mode_key)
                     /\ Report("img_step1", input,
                               Message("success", "Processed images.", <<Len(processed_data)>>))
    /\ UNCHANGED <<config, processed_audio, processed_teammember, host>>

\* the upload loop walking the batch backwards
UploadCalls_Reversed(batch, resps) ==
    [i \in 1..Len(batch) |->
        LET item == batch[Len(batch) + 1 - i]
        IN Call("upload_asset", <<config.api_url, config.api_token, item.bytes, item.name>>,
                upload_asset(config.api_url, config.api_token, item.bytes, item.name, resps[i]))]

\* the upload loop of a batch Step 2: one upload_asset call per item
UploadCalls(batch, resps) ==
    [i \in 1..Len(batch) |->
        Call("upload_asset", <<config.api_url, config.api_token, batch[i].bytes, batch[i].name>>,
             upload_asset(config.api_url, config.api_token, batch[i].bytes, batch[i].name, resps[i]))]

\* a count that misses the first upload
SuccessCount_SkipFirst(uploads) ==
    Cardinality({i \in 2..Len(uploads) : Truthy(uploads[i].ret)})

SuccessCount(uploads) == Cardinality({i \in 1..Len(uploads) : Truthy(uploads[i].ret)})

\* the uploaded items dropped from the front of the batch
ImagesAfterUpload_DropUploaded(batch, success_count) ==
    SubSeq(batch, success_count + 1, Len(batch))

\* the batch cleared whatever the uploads returned
ImagesAfterUpload_ClearAlways(batch, success_count) == <<>>

\* lines 94-98: the batch after the upload loop
ImagesAfterUpload(batch, success_count) ==
    IF success_count = Len(batch) THEN <<>> ELSE batch

ImgUpload(auth_pass) ==
    \E resps \in [1..Len(processed_images) -> UploadResponses] :
        LET uploads == UploadCalls(processed_images, resps)
            success_count == SuccessCount(uploads)
        IN /\ calls' = uploads
           /\ processed_images' = ImagesAfterUpload(processed_images, success_count)
           /\ ReportUploads("img_step2", [auth_pass |-> auth_pass],
                            IF success_count = Len(processed_images)
                            THEN Message("success", "All images uploaded successfully!",
                                         <<success_count>>)
                            ELSE Message("warning", "Uploaded k/n images.",
                                         <<success_count, Len(processed_images)>>),
                            uploads)
           /\ UNCHANGED <<processed_audio, processed_teammember>>

ImgStep2 ==
    /\ Running
    /\ Truthy(PyList(processed_images))
    /\ \E auth_pass \in Credentials :
          IF CredentialMatches(auth_pass, config.default_password)
          THEN ImgUpload(auth_pass)
          ELSE Rejected("img_step2", auth_pass)
    /\ UNCHANGED <<config, host>>

(***************************************************************************)
(* Tab 2: audio                                                            *)
(***************************************************************************)
AudioNewName(name) == SplitExt(name)[1] \o <<".", "m", "p", "3">>

\* the process_audio call of each loop iteration, were the loop to get there
AudioResults(uploaded_audios, channels, env) ==
    [i \in 1..Len(uploaded_audios) |->
        process_audio(uploaded_audios[i].content, uploaded_audios[i].name, channels, env)]

\* the first iteration whose process_audio call raises; 0 when none does
FirstRaise(results) ==
    LET r == {i \in 1..Len(results) : Raised(results[i])}
    IN IF r = {} THEN 0 ELSE CHOOSE i \in r : \A j \in r : i <= j

\* processed_data after the first n iterations
RECURSIVE AudioPass(_, _, _)
AudioPass(uploaded_audios, results, n) ==
    IF n = 0 THEN <<>>
    ELSE AudioPass(uploaded_audios, results, n - 1)
         \o (IF Truthy(results[n])
             THEN <<[name |-> AudioNewName(uploaded_audios[n].name), bytes |-> results[n]]>>
             ELSE <<>>)

AudioPassCalls(uploaded_audios, channels, results, n) ==
    [i \in 1..n |->
        Call("process_audio", <<uploaded_audios[i].content, uploaded_audios[i].name, channels>>,
             results[i])]

AudioStep1 ==
    /\ Running
    /\ \E uploaded_audios \in AudioSelections, channels \in ChannelChoices :
          LET input == [uploaded_audios |-> uploaded_audios, channels |-> channels]
          IN IF uploaded_audios = <<>>
             THEN /\ Report("audio_step1", input,
                            Message("warning", "No audio files selected.", <<>>))
                  /\ calls' = <<>>
                  /\ UNCHANGED processed_audio
             ELSE \E env \in AudioEnvs :
                  LET results == AudioResults(uploaded_audios, channels, env)
                      k == FirstRaise(results)
                  IN IF k = 0
                     THEN LET processed_data ==
                                  AudioPass(uploaded_audios, results, Len(uploaded_audios))
                          IN /\ processed_audio' = processed_data
                             /\ calls' = AudioPassCalls(uploaded_audios, channels, results,
                                                        Len(uploaded_audios))
                             /\ Report("audio_step1", input,
                                       Message("success", "Processed audio files.",
                                               <<Len(processed_data)>>))
                     ELSE \* the exception leaves the handler before line 134
                          /\ UNCHANGED processed_audio
                          /\ calls' = AudioPassCalls(uploaded_audios, channels, results, k)
                          /\ Report("audio_step1", input,
                                    Message("exception", results[k].v, <<>>))
    /\ UNCHANGED <<config, processed_images, processed_teammember, host>>

\* lines 157-158: the batch after the upload loop
AudioAfterUpload(batch, success_count) == <<>>

AudioUpload(auth_pass_audio) ==
    \E resps \in [1..Len(processed_audio) -> UploadResponses] :
        LET uploads == UploadCalls(processed_audio, resps)
            success_count == SuccessCount(uploads)
        IN /\ calls' = uploads
           /\ processed_audio' = AudioAfterUpload(processed_audio, success_count)
           /\ ReportUploads("audio_step2", [auth_pass |-> auth_pass_audio],
                            Message("success", "Completed! Uploaded files.", <<success_count>>),
                            uploads)
           /\ UNCHANGED <<processed_images, processed_teammember>>

AudioStep2 ==
    /\ Running
    /\ Truthy(PyList(processed_audio))
    /\ \E auth_pass_audio \in Credentials :
          IF CredentialMatches(auth_pass_audio, config.default_password)
          THEN AudioUpload(auth_pass_audio)
          ELSE Rejected("audio_step2", auth_pass_audio)
    /\ UNCHANGED <<config, host>>

(***************************************************************************)
(* Tab 3: team member                                                      *)
(***************************************************************************)
\* the validation without the name test
TeamFormInvalid_NoNameCheck(t_name, t_role, t_photo) ==
    ~Truthy(t_role) \/ t_photo = None

\* line 180: `if not t_name or not t_role or not t_photo`
TeamFormInvalid(t_name, t_role, t_photo) ==
    t_name = <<>> \/ ~Truthy(t_role) \/ t_photo = None

\* the draft stored by Step 1; the phone, year and sher author fields of the
\* form are left empty
TeamDraft(p_bytes, t_name, t_email, t_role, t_sher) ==
    PyDict([photo_bytes |-> p_bytes,
            name |-> t_name,
            email |-> t_email,
            role |-> t_role,
            phone |-> "",
            year |-> "",
            sher |-> t_sher,
            sher_author |-> ""])

TeamStep1 ==
    /\ Running
    /\ \E t_name \in TeamNames, t_role \in TeamRoles, t_photo \in TeamPhotos,
          t_email \in TeamEmails, t_sher \in TeamShers :
          LET input == [t_name |-> t_name, t_role |-> t_role, t_photo |-> t_photo,
                        t_email |-> t_email, t_sher |-> t_sher]
          IN IF TeamFormInvalid(t_name, t_role, t_photo)
             THEN /\ Report("team_step1", input,
                            Message("error", "Name, Role, and Photo are required.", <<>>))
                  /\ calls' = <<>>
                  /\ UNCHANGED processed_teammember
             ELSE LET p_bytes == process_image(t_photo.content, "square")
                  IN /\ calls' = <<Call("process_image", <<t_photo.content, "square">>, p_bytes)>>
                     /\ IF Truthy(p_bytes)
                        THEN /\ processed_teammember' =
                                    TeamDraft(p_bytes, t_name, t_email, t_role, t_sher)
                             /\ Report("team_step1", input,
                                       Message("success",
                                               "Data prepared. Please authenticate to upload.",
                                               <<>>))
                        ELSE /\ UNCHANGED processed_teammember
                             /\ Report("team_step1", input,
                                       Message("error", "Failed to process image.", <<>>))
    /\ UNCHANGED <<config, processed_images, processed_audio, host>>

TeamImageName(name) ==
    <<"t", "e", "a", "m", "_">> \o Lower(Replace(name, <<" ">>, <<"_">>))
        \o <<".", "j", "p", "g">>

\* an entry whose Photo reference carries the _id alone
EntryData_PhotoIdOnly(data, asset) ==
    IF Raised(GetAttr(asset, "_id")) THEN GetAttr(asset, "_id")
    ELSE PyDict([Name |-> data.v.name,
                 Email |-> data.v.email,
                 Role |-> data.v.role,
                 Phone |-> data.v.phone,
                 Sher |-> Replace(data.v.sher, <<"\n">>, <<"<", "b", "r", ">">>),
                 SherAuthor |-> data.v.sher_author,
                 Year |-> data.v.year,
                 Photo |-> PyDict([_id |-> GetAttr(asset, "_id")])])

\* entry_data of "Step 2: Upload & Create"; an exception when asset has no .get
EntryData(data, asset) ==
    IF Raised(GetAttr(asset, "_id")) THEN GetAttr(asset, "_id")
    ELSE PyDict([Name |-> data.v.name,
                 Email |-> data.v.email,
                 Role |-> data.v.role,
                 Phone |-> data.v.phone,
                 Sher |-> Replace(data.v.sher, <<"\n">>, <<"<", "b", "r", ">">>),
                 SherAuthor |-> data.v.sher_author,
                 Year |-> data.v.year,
                 Photo |-> PyDict([_id |-> GetAttr(asset, "_id"),
                                   path |-> GetAttr(asset, "path"),
                                   title |-> GetAttr(asset, "title"),
                                   mime |-> GetAttr(asset, "mime"),
                                   size |-> GetAttr(asset, "size")])])

\* the draft cleared whatever the entry creation answered
TeamAfterPublish_AlwaysClear(data, resp) == None

\* lines 233-238: the draft after the entry creation answered resp
TeamAfterPublish(data, resp) == IF Truthy(resp) THEN None ELSE data

\* lines 214-240, once upload_asset has returned asset; t_name is the Name
\* field of the form as it stands when Step 2 runs
TeamCommit(auth_pass_team, t_name, data, upload, resp2) ==
    LET asset == upload.ret
        input == [auth_pass |-> auth_pass_team, t_name |-> t_name]
    IN IF Truthy(asset)
       THEN LET entry_data == EntryData(data, asset)
                resp == create_collection_entry(config.api_url, config.api_token,
                                                "teammembers", entry_data, resp2)
            IN IF Raised(entry_data)
               THEN \* the exception leaves the handler at line 224
                    /\ calls' = <<upload>>
                    /\ UNCHANGED processed_teammember
                    /\ Report("team_step2", input, Message("exception", entry_data.v, <<>>))
               ELSE /\ calls' = <<upload,
                                  Call("create_collection_entry",
                                       <<config.api_url, config.api_token,
                                         "teammembers", entry_data>>, resp)>>
                    /\ processed_teammember' = TeamAfterPublish(data, resp)
                    /\ Report("team_step2", input,
                              IF Truthy(resp)
                              THEN Message("success", "Team Member added successfully!", <<>>)
                              ELSE Message("error", "Failed to create collection entry.", <<>>))
       ELSE /\ calls' = <<upload>>
            /\ UNCHANGED processed_teammember
            /\ Report("team_step2", input, Message("error", "Failed to upload asset.", <<>>))

TeamUpload(auth_pass_team) ==
    \E t_name \in TeamNames, resp1 \in UploadResponses, resp2 \in EntryResponses :
        LET data == processed_teammember
            img_name == TeamImageName(data.v.name)
            asset == upload_asset(config.api_url, config.api_token,
                                  data.v.photo_bytes, img_name, resp1)
            upload == Call("upload_asset",
                           <<config.api_url, config.api_token, data.v.photo_bytes, img_name>>,
                           asset)
        IN /\ TeamCommit(auth_pass_team, t_name, data, upload, resp2)
           /\ UNCHANGED <<processed_images, processed_audio>>

TeamStep2 ==
    /\ Running
    /\ Truthy(processed_teammember)
    /\ \E auth_pass_team \in Credentials :
          IF CredentialMatches(auth_pass_team, config.default_password)
          THEN TeamUpload(auth_pass_team)
          ELSE Rejected("team_step2", auth_pass_team)
    /\ UNCHANGED <<config, host>>

Next ==
    \/ ImgStep1
    \/ ImgStep2
    \/ AudioStep1
    \/ AudioStep2
    \/ TeamStep1
    \/ TeamStep2

Spec == Init /\ [][Next]_vars

(***************************************************************************)
(* upload_asset on its own: one call, answered by any response.            *)
(***************************************************************************)
InitUpload ==
    /\ config = [api_url |-> "https://cms", api_token |-> "tok", default_password |-> "Secret"]
    /\ processed_images = <<>>
    /\ processed_audio = <<>>
    /\ processed_teammember = None
    /\ calls = <<>>
    /\ last = [op |-> "start", input |-> <<>>, msg |-> Message("none", "", <<>>),
               after_reject |-> FALSE, resent |-> {}]
    /\ HostInit

UploadAssetCall ==
    /\ \E resp \in AllResponses, item \in {ImagePass(<<f>>, "square")[1] : f \in {g \in ImageFiles : g.content.v[1] = "image"}} :
          /\ calls' = <<Call("upload_asset",
                             <<config.api_url, config.api_token, item.bytes, item.name>>,
                             upload_asset(config.api_url, config.api_token,
                                          item.bytes, item.name, resp))>>
          /\ last' = [op |-> "upload_asset", input |-> [resp |-> resp],
                      msg |-> Message("none", "", <<>>),
                      after_reject |-> FALSE, resent |-> {}]
    /\ UNCHANGED <<config, pending, host>>

NextUpload == UploadAssetCall

SpecUpload == InitUpload /\ [][NextUpload]_vars

(***************************************************************************)
(* The three flows together with upload_asset called on a file name of any *)
(* kind, as a caller outside the flows could.                              *)
(***************************************************************************)
Filenames ==
    { <<"x", ".", "j", "p", "g">>,
      <<"x", ".", "j", "p", "e", "g">>,
      <<"x", ".", "m", "p", "3">>,
      <<"x", ".", "p", "n", "g">>,
      <<"x", ".", "w", "a", "v">>,
      <<"x", ".", "J", "P", "G">>,
      <<"x", ".", "j", "p", "g", ".", "p", "n", "g">>,
      <<"x", ".", "m", "p", "3", ".", "j", "p", "e", "g">>,
      <<"j", "p", "g">>,
      <<"m", "p", "3">>,
      <<>> }

\* an upload that fails and one that succeeds
NamedResponses ==
    { HttpResponse(0, NotJson),
      HttpResponse(200, PyDict([assets |-> PyList(<<AssetRec>>)])) }

UploadNamed ==
    /\ \E filename \in Filenames, resp \in NamedResponses :
          LET file_bytes == PyBytes(<<"raw", 0>>)
          IN /\ calls' = <<Call("upload_asset",
                                <<config.api_url, config.api_token, file_bytes, filename>>,
                                upload_asset(config.api_url, config.api_token,
                                             file_bytes, filename, resp))>>
             /\ last' = [op |-> "upload_named", input |-> [filename |-> filename],
                         msg |-> Message("none", "", <<>>),
                      after_reject |-> FALSE, resent |-> {}]
    /\ UNCHANGED <<config, pending, host>>

NextNamed ==
    \/ Next
    \/ UploadNamed

SpecNamed == Init /\ [][NextNamed]_vars

(***************************************************************************)
(* The square crop of process_image on its own, over image sizes.          *)
(***************************************************************************)
MaxDim == 12       \* largest width and height of an input image

Min(a, b) == IF a <= b THEN a ELSE b

\* lines 23-26: left, top, right, bottom; `/` is true division, so each is
\* a float that is a whole number or a whole number and a half: kept here
\* as twice its value
SquareBox2(width, height) ==
    LET new_size == Min(width, height)
    IN <<width - new_size, height - new_size, width + new_size, height + new_size>>

\* int(round(x)) for the non-negative float x = twice / 2: Python rounds a
\* half to the even neighbour
RoundHalfEven(twice) ==
    LET floor == twice \div 2
    IN IF twice % 2 = 0 THEN floor
       ELSE IF floor % 2 = 0 THEN floor ELSE floor + 1

\* line 29: img.crop((left, top, right, bottom)); Image.crop rounds each
\* coordinate of the box to an integer
Crop(box2) == [c \in 1..4 |-> RoundHalfEven(box2[c])]

SquareCrop ==
    /\ \E width \in 1..MaxDim, height \in 1..MaxDim :
          /\ calls' = <<Call("Image.crop", <<width, height>>,
                             Crop(SquareBox2(width, height)))>>
          /\ last' = [op |-> "square_crop", input |-> [width |-> width, height |-> height],
                      msg |-> Message("none", "", <<>>),
                      after_reject |-> FALSE, resent |-> {}]
    /\ UNCHANGED <<config, pending, host>>

NextCrop == SquareCrop

SpecCrop == InitUpload /\ [][NextCrop]_vars

(***************************************************************************)
(* The output names of the two Step 1 passes on their own, over file       *)
(* names: a stem followed by an extension the uploader accepts.            *)
(***************************************************************************)
NameStems ==
    { <<"a">>,
      <<"A", "b">>,
      <<"a", "_", "s", "q">>,
      <<"a", ".", "b">>,
      <<"a", ".">>,
      <<"a", ".", "j", "p", "g">>,
      <<"a", ".", "j", "p", "g", ".", "b">>,
      <<"b", "_", "c">>,
      <<"a", ".", "m", "p", "3">> }

\* st.file_uploader(type=['jpg', 'png', 'jpeg', 'webp']), in either case
ImageExts ==
    { <<".", "j", "p", "g">>, <<".", "p", "n", "g">>, <<".", "j", "p", "e", "g">>,
      <<".", "w", "e", "b", "p">>, <<".", "J", "P", "G">> }

\* st.file_uploader(type=['mp3', 'wav', 'm4a', 'ogg'])
AudioExts ==
    { <<".", "m", "p", "3">>, <<".", "w", "a", "v">>, <<".", "m", "4", "a">>,
      <<".", "o", "g", "g">> }

\* lines 67-68 of app.py for one processed image
NameImage ==
    /\ \E stem \in NameStems, ext \in ImageExts, mode_key \in Modes :
          /\ calls' = <<Call("new_name", <<stem \o ext, mode_key>>,
                             ImageNewName(stem \o ext, mode_key))>>
          /\ last' = [op |-> "image_name",
                      input |-> [stem |-> stem, ext |-> ext, mode_key |-> mode_key],
                      msg |-> Message("none", "", <<>>),
                      after_reject |-> FALSE, resent |-> {}]
    /\ UNCHANGED <<config, pending, host>>

\* line 129 of app.py for one processed audio file
NameAudio ==
    /\ \E stem \in NameStems, ext \in AudioExts :
          /\ calls' = <<Call("new_name", <<stem \o ext>>, AudioNewName(stem \o ext))>>
          /\ last' = [op |-> "audio_name", input |-> [stem |-> stem, ext |-> ext],
                      msg |-> Message("none", "", <<>>),
                      after_reject |-> FALSE, resent |-> {}]
    /\ UNCHANGED <<config, pending, host>>

NextNaming ==
    \/ NameImage
    \/ NameAudio

SpecNaming == InitUpload /\ [][NextNaming]_vars

(***************************************************************************)
(* cms_utils.process_audio statement by statement, on the files of the     *)
(* host: the invocations interleave between statements, and the clock      *)
(* advances on its own.                                                    *)
(***************************************************************************)
MaxClock == 1      \* the last second the clock reaches

session == <<config, processed_images, processed_audio, processed_teammember, calls, last>>

\* original_filename.split('.')[-1]
LastDotPart(name) == SubSeq(name, RFind(name, ".") + 1, Len(name))

\* f"temp_audio_in_{int(time.time())}.{ext}", f"temp_audio_out_{int(time.time())}.mp3"
TempPath(stem, now, ext) == [stem |-> stem, time |-> now, ext |-> ext]

\* open(path, "wb") and write: the file is created or replaced
FsWrite(files, path, content) ==
    [p \in DOMAIN files \cup {path} |-> IF p = path THEN content ELSE files[p]]

\* os.remove of an existing file
FsRemove(files, path) == [p \in DOMAIN files \ {path} |-> files[p]]

\* what a run of ffmpeg over the file at temp_in writes to temp_out
Transcoded(content, channels) == PyBytes(<<"MP3", channels, content.v[2]>>)

\* `return value`, or an exception that leaves the function
Return(i, value) ==
    runs' = [runs EXCEPT ![i] = [runs[i] EXCEPT !.pc = "done", !.ret = value]]

\* lines 60-61: the call, ext and temp_in
TranscodeEnter(i) ==
    /\ runs[i].pc = "idle"
    /\ \E file \in AudioFiles, channels \in ChannelChoices, env \in AudioEnvs :
          runs' = [runs EXCEPT ![i] =
                      [IdleRun EXCEPT !.pc = "name_out", !.file = file,
                                      !.channels = channels, !.env = env,
                                      !.temp_in = TempPath("temp_audio_in_", clock,
                                                           Lower(LastDotPart(file.name)))]]
    /\ UNCHANGED <<fs, clock, session>>

\* line 62: temp_out
TranscodeNameOut(i) ==
    /\ runs[i].pc = "name_out"
    /\ runs' = [runs EXCEPT ![i] =
                   [runs[i] EXCEPT !.pc = "write_in",
                                   !.temp_out = TempPath("temp_audio_out_", clock,
                                                         <<"m", "p", "3">>)]]
    /\ UNCHANGED <<fs, clock, session>>

\* lines 64-65: the input is written to temp_in
TranscodeWriteIn(i) ==
    /\ runs[i].pc = "write_in"
    /\ fs' = FsWrite(fs, runs[i].temp_in, runs[i].file.content)
    /\ runs' = [runs EXCEPT ![i] = [runs[i] EXCEPT !.pc = "ffmpeg"]]
    /\ UNCHANGED <<clock, session>>

\* line 79: subprocess.run(cmd, check=True, ...), and the two handlers of
\* lines 94-99 when it raises
TranscodeFfmpeg(i) ==
    /\ runs[i].pc = "ffmpeg"
    /\ IF runs[i].env.ffmpeg = "missing"
       THEN \* FileNotFoundError, `except Exception`
            /\ Return(i, None)
            /\ UNCHANGED fs
       ELSE IF runs[i].temp_in \notin DOMAIN fs \/ fs[runs[i].temp_in].v[1] # "audio"
            THEN \* non-zero exit, CalledProcessError: the handler prints
                 \* e.stderr.decode()
                 /\ Return(i, IF runs[i].env.stderr_utf8
                              THEN None ELSE Raise("UnicodeDecodeError"))
                 /\ UNCHANGED fs
            ELSE /\ fs' = FsWrite(fs, runs[i].temp_out,
                                  Transcoded(fs[runs[i].temp_in], runs[i].channels))
                 /\ runs' = [runs EXCEPT ![i] = [runs[i] EXCEPT !.pc = "read_back"]]
    /\ UNCHANGED <<clock, session>>

\* lines 82-83: the output is read back; FileNotFoundError when it is gone
TranscodeReadBack(i) ==
    /\ runs[i].pc = "read_back"
    /\ IF runs[i].temp_out \in DOMAIN fs
       THEN runs' = [runs EXCEPT ![i] =
                        [runs[i] EXCEPT !.pc = "remove_in",
                                        !.processed_bytes = fs[runs[i].temp_out]]]
       ELSE Return(i, None)
    /\ UNCHANGED <<fs, clock, session>>

\* line 87: os.remove(temp_in); when it raises, `except: pass` skips line 88
TranscodeRemoveIn(i) ==
    /\ runs[i].pc = "remove_in"
    /\ IF runs[i].temp_in \in DOMAIN fs
       THEN /\ fs' = FsRemove(fs, runs[i].temp_in)
            /\ runs' = [runs EXCEPT ![i] = [runs[i] EXCEPT !.pc = "remove_out"]]
       ELSE /\ Return(i, runs[i].processed_bytes)
            /\ UNCHANGED fs
    /\ UNCHANGED <<clock, session>>

\* lines 88-92: os.remove(temp_out), then return processed_bytes
TranscodeRemoveOut(i) ==
    /\ runs[i].pc = "remove_out"
    /\ fs' = IF runs[i].temp_out \in DOMAIN fs THEN FsRemove(fs, runs[i].temp_out) ELSE fs
    /\ Return(i, runs[i].processed_bytes)
    /\ UNCHANGED <<clock, session>>

\* a second passes
Tick ==
    /\ clock < MaxClock
    /\ clock' = clock + 1
    /\ UNCHANGED <<fs, runs, session>>

NextTranscode ==
    \/ \E i \in Invocations :
          \/ TranscodeEnter(i)
          \/ TranscodeNameOut(i)
          \/ TranscodeWriteIn(i)
          \/ TranscodeFfmpeg(i)
          \/ TranscodeReadBack(i)
          \/ TranscodeRemoveIn(i)
          \/ TranscodeRemoveOut(i)
    \/ Tick

SpecTranscode == InitUpload /\ [][NextTranscode]_vars

(***************************************************************************)
(* Vocabulary of the properties                                            *)
(***************************************************************************)
\* the items a sequence of upload_asset calls sent
ItemsOf(uploads) ==
    [i \in 1..Len(uploads) |-> [name |-> uploads[i].args[4], bytes |-> uploads[i].args[3]]]

RemoteFns == {"upload_asset", "create_collection_entry"}

AllTruthy(cs) == \A i \in 1..Len(cs) : Truthy(cs[i].ret)

\* C1: a Step 2 handler calls upload_asset or create_collection_entry only
\* when the submitted credential equals the configured secret; every other
\* string, the empty string and a case variant included, is answered with
\* "Incorrect Password." and no call.
C1_UploadGate ==
    /\ (\E i \in 1..Len(calls) : calls[i].fn \in RemoteFns) =>
          /\ last.op \in Step2Ops
          /\ last.input.auth_pass = config.default_password
    /\ last.op \in Step2Ops =>
          IF last.input.auth_pass = config.default_password /\ last.input.auth_pass # ""
          THEN last.msg # IncorrectPassword
          ELSE last.msg = IncorrectPassword /\ calls = <<>>

C1_Witness ==
    /\ last.op = "team_step2"
    /\ config.default_password = "Secret"
    /\ last.input.auth_pass = "secret"
    /\ last.msg = IncorrectPassword
    /\ calls = <<>>

\* C2: a Step 2 with a mismatching credential leaves the three pending
\* states unchanged, and a Step 2 with the correct credential that follows
\* rejected attempts is accepted and uploads the batch as it was.
C2_RejectKeepsPending ==
    [][ /\ (last'.op \in Step2Ops /\ last'.input.auth_pass # config.default_password) =>
              pending' = pending
        /\ (/\ last'.op \in Step2Ops
            /\ last'.after_reject
            /\ last'.input.auth_pass = config.default_password) =>
              /\ last'.msg # IncorrectPassword
              /\ calls' # <<>>
              /\ last'.op = "img_step2" => ItemsOf(calls') = processed_images
              /\ last'.op = "audio_step2" => ItemsOf(calls') = processed_audio
              /\ last'.op = "team_step2" =>
                    calls'[1].args[3] = processed_teammember.v.photo_bytes
      ]_vars

C2_Witness ==
    /\ last.op = "img_step2"
    /\ last.after_reject
    /\ last.input.auth_pass = config.default_password
    /\ Len(calls) = 2
    /\ processed_images = ItemsOf(calls)

\* C3: in the images and the audio flow, an authenticated Step 2 in which at
\* least one upload failed leaves the pending batch holding every item it
\* held before.
C3_FailedUploadKeepsBatch ==
    /\ (last.op = "img_step2" /\ calls # <<>> /\ ~AllTruthy(calls)) =>
          processed_images = ItemsOf(calls)
    /\ (last.op = "audio_step2" /\ calls # <<>> /\ ~AllTruthy(calls)) =>
          processed_audio = ItemsOf(calls)

\* C4: an authenticated Step 2 of a batch flow whose uploads all succeed
\* leaves that flow's batch empty; Step 2 runs only on a non-empty batch, and
\* an empty batch becomes non-empty only by a Step 1 pass.
C4_AllUploadedClears ==
    [][ /\ last'.op = "img_step2" => processed_images # <<>>
        /\ last'.op = "audio_step2" => processed_audio # <<>>
        /\ (last'.op = "img_step2" /\ calls' # <<>> /\ AllTruthy(calls')) =>
              processed_images' = <<>>
        /\ (last'.op = "audio_step2" /\ calls' # <<>> /\ AllTruthy(calls')) =>
              processed_audio' = <<>>
        /\ (processed_images = <<>> /\ processed_images' # <<>>) => last'.op = "img_step1"
        /\ (processed_audio = <<>> /\ processed_audio' # <<>>) => last'.op = "audio_step1"
      ]_vars

C4_Witness ==
    /\ last.op = "audio_step2"
    /\ Len(calls) = 2
    /\ AllTruthy(calls)
    /\ processed_audio = <<>>

NotNone(r) == r # None

Rets(cs) == [i \in 1..Len(cs) |-> cs[i].ret]

Bytes(batch) == [i \in 1..Len(batch) |-> batch[i].bytes]

FailedCount(cs) == Cardinality({i \in 1..Len(cs) : cs[i].ret = None})

\* C5: a Step 1 pass over a non-empty selection processes every selected
\* item, the pending batch afterwards holds exactly the non-null results in
\* input order, and succeeded + failed equals the number of selected items.
C5_Step1Accounting ==
    /\ (last.op = "img_step1" /\ last.input.uploaded_images # <<>>) =>
          /\ Len(calls) = Len(last.input.uploaded_images)
          /\ Bytes(processed_images) = SelectSeq(Rets(calls), NotNone)
          /\ Len(processed_images) + FailedCount(calls) = Len(last.input.uploaded_images)
    /\ (last.op = "audio_step1" /\ last.input.uploaded_audios # <<>>) =>
          /\ Len(calls) = Len(last.input.uploaded_audios)
          /\ Bytes(processed_audio) = SelectSeq(Rets(calls), NotNone)
          /\ Len(processed_audio) + FailedCount(calls) = Len(last.input.uploaded_audios)

\* C6: an authenticated Step 2 of a batch flow makes exactly one
\* upload_asset call per item of the pending batch, in batch order, each
\* for a result Step 1 kept, and empties the batch when all of them succeed.
C6_OneUploadPerItem ==
    [][ /\ (last'.op = "img_step2" /\ last'.msg # IncorrectPassword) =>
              /\ \A i \in 1..Len(calls') : calls'[i].fn = "upload_asset"
              /\ ItemsOf(calls') = processed_images
              /\ \A i \in 1..Len(calls') : calls'[i].args[3].t = "bytes"
              /\ AllTruthy(calls') => processed_images' = <<>>
        /\ (last'.op = "audio_step2" /\ last'.msg # IncorrectPassword) =>
              /\ \A i \in 1..Len(calls') : calls'[i].fn = "upload_asset"
              /\ ItemsOf(calls') = processed_audio
              /\ \A i \in 1..Len(calls') : calls'[i].args[3].t = "bytes"
              /\ AllTruthy(calls') => processed_audio' = <<>>
      ]_vars

C6_Witness ==
    /\ last.op = "img_step2"
    /\ last.msg.level = "success"
    /\ Len(calls) = 2
    /\ calls[1].args[4] # calls[2].args[4]
    /\ processed_images = <<>>

\* C7: an authenticated team Step 2 clears the draft only when upload_asset
\* and create_collection_entry both returned a result; otherwise the draft is
\* unchanged; and every authenticated Step 2 starts again with the asset
\* upload of the draft's photo, followed by the entry creation.
C7_TeamClearsOnlyOnBoth ==
    [][ (last'.op = "team_step2" /\ last'.msg # IncorrectPassword) =>
          /\ Len(calls') \in {1, 2}
          /\ calls'[1].fn = "upload_asset"
          /\ calls'[1].args[3] = processed_teammember.v.photo_bytes
          /\ Len(calls') = 2 =>
                calls'[2].fn = "create_collection_entry" /\ calls'[1].ret # None
          /\ processed_teammember' \in {None, processed_teammember}
          /\ processed_teammember' = None =>
                Len(calls') = 2 /\ calls'[1].ret # None /\ calls'[2].ret # None
          /\ (Len(calls') < 2 \/ \E i \in 1..Len(calls') : calls'[i].ret = None) =>
                processed_teammember' = processed_teammember
      ]_vars

C7_Witness ==
    /\ last.op = "team_step2"
    /\ Len(calls) = 2
    /\ calls[2].ret = None
    /\ last.msg.text = "Failed to create collection entry."
    /\ processed_teammember # None

\* C8: team Step 1 with an empty name, no role or no photo reports the
\* validation error, does not call process_image and leaves the draft as it
\* was.
C8_TeamValidation ==
    [][ (/\ last'.op = "team_step1"
         /\ \/ last'.input.t_name = <<>>
            \/ last'.input.t_role = None
            \/ last'.input.t_photo = None) =>
          /\ last'.msg = Message("error", "Name, Role, and Photo are required.", <<>>)
          /\ calls' = <<>>
          /\ processed_teammember' = processed_teammember
      ]_vars

C8_Witness ==
    /\ last.op = "team_step1"
    /\ last.input.t_name = <<>>
    /\ last.input.t_role # None
    /\ last.input.t_photo # None
    /\ calls = <<>>
    /\ processed_teammember # None

\* what the three documented shapes and "any other shape" prescribe
C9_Expected(body) ==
    IF body.t = "dict" /\ "assets" \in DOMAIN body.v
       /\ body.v["assets"].t = "list" /\ Len(body.v["assets"].v) > 0
    THEN body.v["assets"].v[1]
    ELSE IF body.t = "list" /\ Len(body.v) > 0
         THEN body.v[1]
         ELSE IF body.t = "dict" /\ "_id" \in DOMAIN body.v
              THEN body
              ELSE None

\* C9: for a 2xx JSON answer upload_asset returns the first record of a
\* non-empty `assets` list, the first element of a non-empty bare array, the
\* body itself when it is an object containing `_id`, and None for any other
\* shape; a non-2xx status, a missing or a non-JSON answer gives None.
C9_ResponseNormalization ==
    last.op = "upload_asset" =>
        LET resp == last.input.resp
        IN IF resp.status \in 200..299 /\ resp.body # NotJson
           THEN calls[1].ret = C9_Expected(resp.body)
           ELSE calls[1].ret = None

\* C10: no handler ends in an unhandled exception: each reports success, a
\* warning or an error.
C10_NoUnhandledFault ==
    last.op # "start" => last.msg.level \in {"success", "warning", "error"}

\* an invocation between its call and its return
InFlight(i) == runs[i].pc \notin {"idle", "done"}

\* C11: once an invocation of process_audio has returned, with MP3 bytes or
\* with None, neither of the two temporary files it named exists any more
\* (stated for an invocation that has the host to itself), and what it
\* returns is bytes or None, never an exception.
C11_TempFilesDeleted ==
    \A i \in Invocations :
        (runs[i].pc = "done" /\ \A j \in Invocations \ {i} : runs[j].pc = "idle") =>
            /\ runs[i].temp_in \notin DOMAIN fs
            /\ runs[i].temp_out \notin DOMAIN fs
            /\ runs[i].ret.t \in {"bytes", "None"}

\* C12: two invocations in flight at the same time never name the same
\* temporary input or output path, and an invocation whose own input ffmpeg
\* can transcode returns the transcoding of that input.
C12_NoTempCollision ==
    /\ \A i, j \in Invocations :
          (i # j /\ InFlight(i) /\ InFlight(j)) =>
              /\ runs[i].temp_in # runs[j].temp_in
              /\ runs[i].temp_out # None => runs[i].temp_out # runs[j].temp_out
    /\ \A i \in Invocations :
          (/\ runs[i].pc = "done"
           /\ runs[i].env.ffmpeg = "present"
           /\ runs[i].file.content.v[1] = "audio") =>
              /\ runs[i].ret.t = "bytes"
              /\ runs[i].ret = Transcoded(runs[i].file.content, runs[i].channels)

\* the request a recorded upload_asset call posted
RequestOf(call) == UploadRequest(call.args[1], call.args[2], call.args[3], call.args[4])

\* the MIME type each file name of Filenames is to be sent with
C13_Table(filename) ==
    CASE filename = <<"x", ".", "j", "p", "g">> -> "image/jpeg"
      [] filename = <<"x", ".", "j", "p", "e", "g">> -> "image/jpeg"
      [] filename = <<"x", ".", "m", "p", "3", ".", "j", "p", "e", "g">> -> "image/jpeg"
      [] filename = <<"x", ".", "m", "p", "3">> -> "audio/mpeg"
      [] OTHER -> "application/octet-stream"

\* C13: upload_asset sends a file name ending in .jpg or .jpeg as image/jpeg,
\* one ending in .mp3 as audio/mpeg and any other as
\* application/octet-stream; and every upload of the images and the team
\* flow is sent as image/jpeg, every upload of the audio flow as audio/mpeg.
C13_MimeByExtension ==
    \A i \in 1..Len(calls) :
        calls[i].fn = "upload_asset" =>
            LET mime == RequestOf(calls[i]).files[3]
            IN /\ last.op = "upload_named" => mime = C13_Table(calls[i].args[4])
               /\ last.op \in {"img_step2", "team_step2"} => mime = "image/jpeg"
               /\ last.op = "audio_step2" => mime = "audio/mpeg"

C13_Witness ==
    /\ last.op = "audio_step2"
    /\ Len(calls) = 2
    /\ calls[1].args[4] = <<"s", ".", "m", "p", "3">>
    /\ RequestOf(calls[1]).files[3] = "audio/mpeg"
    /\ RequestOf(calls[2]).files[3] = "audio/mpeg"

C15_RetryUploadsAll ==
    [][ /\ (last'.op = "img_step2" /\ calls' # <<>> /\ ~AllTruthy(calls')) =>
              processed_images' = ItemsOf(calls')
        /\ (/\ last.op = "img_step2" /\ calls # <<>> /\ ~AllTruthy(calls)
            /\ last'.op = "img_step2"
            /\ last'.input.auth_pass = config.default_password) =>
              /\ ItemsOf(calls') = ItemsOf(calls)
              /\ \A i \in 1..Len(calls') : calls'[i].fn = "upload_asset"
              /\ last'.resent = {i \in 1..Len(calls) :
                                    Truthy(calls[i].ret) /\ Truthy(calls'[i].ret)}
      ]_vars

C15_Witness ==
    /\ last.op = "img_step2"
    /\ Len(calls) = 2
    /\ last.resent = {1}
    /\ Truthy(calls[1].ret)
    /\ ~Truthy(calls[2].ret)

\* C16: in square mode, with s = min(w, h), the region cropped is exactly s
\* wide and s high, with corners (floor((w-s)/2), floor((h-s)/2)) and
\* (floor((w+s)/2), floor((h+s)/2)); for w > h its left edge is at
\* floor((w-h)/2) and its width is h.
C16_SquareCropRegion ==
    last.op = "square_crop" =>
        LET w == last.input.width
            h == last.input.height
            s == Min(w, h)
            box == calls[1].ret
        IN /\ box = <<(w - s) \div 2, (h - s) \div 2, (w + s) \div 2, (h + s) \div 2>>
           /\ box[3] - box[1] = s
           /\ box[4] - box[2] = s
           /\ w > h => (box[1] = (w - h) \div 2 /\ box[3] - box[1] = h)

\* C17: a processed image is named by the original name with its last
\* extension replaced by `.jpg` in horizontal mode and by `_sq.jpg` in square
\* mode, whatever the rest of the name contains, and a processed audio file
\* by the original name with its last extension replaced by `.mp3`.
C17_OutputNaming ==
    /\ last.op = "image_name" =>
          calls[1].ret = last.input.stem \o
                             (IF last.input.mode_key = "square"
                              THEN <<"_", "s", "q", ".", "j", "p", "g">>
                              ELSE <<".", "j", "p", "g">>)
    /\ last.op = "audio_name" =>
          calls[1].ret = last.input.stem \o <<".", "m", "p", "3">>

\* the Photo reference of an entry published for asset
C18_Photo(asset) ==
    PyDict([_id |-> DictGet(asset, "_id"),
            path |-> DictGet(asset, "path"),
            title |-> DictGet(asset, "title"),
            mime |-> DictGet(asset, "mime"),
            size |-> DictGet(asset, "size")])

\* one step of the team flow; `converted` tells whether the published Sher is
\* the captured sher with its newlines replaced, or the captured sher itself
C18_Publish(converted) ==
    /\ (last'.op = "team_step2" /\ last'.msg # IncorrectPassword) =>
          LET draft == processed_teammember.v
              publishes == {i \in 1..Len(calls') : calls'[i].fn = "create_collection_entry"}
          IN /\ Cardinality(publishes) <= 1
             /\ \A i \in publishes :
                   /\ i = 2
                   /\ calls'[1].fn = "upload_asset"
                   /\ Truthy(calls'[1].ret)
                   /\ calls'[i].args[3] = "teammembers"
                   /\ LET entry == calls'[i].args[4].v
                      IN /\ entry.Photo = C18_Photo(calls'[1].ret)
                         /\ entry.Name = draft.name
                         /\ entry.Email = draft.email
                         /\ entry.Role = draft.role
                         /\ entry.Phone = draft.phone
                         /\ entry.SherAuthor = draft.sher_author
                         /\ entry.Year = draft.year
                         /\ entry.Sher = IF converted
                                         THEN Replace(draft.sher, <<"\n">>, <<"<", "b", "r", ">">>)
                                         ELSE draft.sher
    /\ (last'.op = "team_step1" /\ last'.msg.level = "success") =>
          /\ processed_teammember'.v.photo_bytes = calls'[1].ret
          /\ processed_teammember'.v.name = last'.input.t_name
          /\ processed_teammember'.v.email = last'.input.t_email
          /\ processed_teammember'.v.role = last'.input.t_role
          /\ processed_teammember'.v.sher = last'.input.t_sher
    /\ processed_teammember' \notin {None, processed_teammember} =>
          (last'.op = "team_step1" /\ last'.msg.level = "success")

\* C18 as stated: an authenticated team Step 2 publishes at most one entry,
\* to `teammembers`, only after its own upload_asset call returned an asset;
\* the entry's Photo carries _id, path, title, mime and size of that asset
\* and every other field is the value the last successful Step 1 captured,
\* whatever the form holds by then.
C18_PublishFromDraft == [][C18_Publish(FALSE)]_vars

\* C18 as amended: as above, except that the published Sher is the captured
\* sher with every newline replaced by <br>.
C18_PublishFromDraftBr == [][C18_Publish(TRUE)]_vars

C18_Witness ==
    /\ last.op = "team_step2"
    /\ Len(calls) = 2
    /\ calls[2].fn = "create_collection_entry"
    /\ calls[2].args[4].v.Name = <<"A", " ", "B">>
    /\ last.input.t_name = <<"C">>
    /\ calls[2].args[4].v.Sher = <<"x", "<", "b", "r", ">", "y">>
    /\ calls[2].args[4].v.Photo.v._id = PyStr(<<"a", "1">>)

IsBytes(r) == r.t = "bytes"

\* C19: a Step 1 pass of a batch flow over a non-empty selection leaves the
\* batch holding the results of this pass alone, none of an earlier pass
\* (and empty when every item failed); Step 1 over an empty selection
\* leaves the batch as it was; a team Step 1 whose image processing fails
\* leaves an earlier draft in place, and a Step 2 that follows commits that
\* draft.
C19_Step1Replaces ==
    [][ /\ (last'.op = "img_step1" /\ last'.input.uploaded_images # <<>>) =>
              Bytes(processed_images') = SelectSeq(Rets(calls'), IsBytes)
        /\ (last'.op = "audio_step1" /\ last'.input.uploaded_audios # <<>>) =>
              Bytes(processed_audio') = SelectSeq(Rets(calls'), IsBytes)
        /\ (last'.op = "img_step1" /\ last'.input.uploaded_images = <<>>) =>
              processed_images' = processed_images
        /\ (last'.op = "audio_step1" /\ last'.input.uploaded_audios = <<>>) =>
              processed_audio' = processed_audio
        /\ (last'.op = "team_step1" /\ last'.msg.text = "Failed to process image.") =>
              processed_teammember' = processed_teammember
        /\ (/\ last.op = "team_step1" /\ last.msg.text = "Failed to process image."
            /\ last'.op = "team_step2" /\ last'.msg # IncorrectPassword) =>
              /\ calls'[1].fn = "upload_asset"
              /\ calls'[1].args[3] = processed_teammember.v.photo_bytes
      ]_vars

\* C20: the session starts with two empty batches and no draft, and every
\* Step 1 and Step 2 of one flow, whatever its outcome, leaves the pending
\* state of the other two flows unchanged.
C20_FlowsIndependent ==
    /\ pending = <<<<>>, <<>>, None>>
    /\ [][ /\ last'.op \in {"img_step1", "img_step2"} =>
                 UNCHANGED <<processed_audio, processed_teammember>>
           /\ last'.op \in {"audio_step1", "audio_step2"} =>
                 UNCHANGED <<processed_images, processed_teammember>>
           /\ last'.op \in {"team_step1", "team_step2"} =>
                 UNCHANGED <<processed_images, processed_audio>>
         ]_vars

C20_Witness ==
    /\ last.op = "audio_step2"
    /\ last.msg # IncorrectPassword
    /\ processed_audio = <<>>
    /\ Len(processed_images) = 2
    /\ processed_teammember # None

====
